---- MODULE Spec2Model ----
(***************************************************************************)
(* RecipeCore prototype (src/recipecore_prototype.py): the two button      *)
(* handlers summarize_recipe and save_and_open, with the widgets they      *)
(* read and write, the collaborators they call (scrape_me, requests.get,   *)
(* scrape_html, the file system, the clock) and the text they produce.     *)
(*                                                                         *)
(* Text is modelled character by character as TLA+ strings.  The module    *)
(* is ASCII, so the three non-ASCII characters the program handles are     *)
(* written with stand-ins: Bullet (U+2022), EnDash (U+2013) and EAcute     *)
(* (U+00E9, a non-ASCII letter).                                           *)
(***************************************************************************)
EXTENDS Integers, Sequences, FiniteSets, TLC

VARIABLES
    url_entry,      \* the URL entry widget's content
    output_text,    \* the output widget: a sequence of inserted segments
    messagebox,     \* the dialog the last handler call showed ("" when none)
    pc,             \* position inside summarize_recipe ("idle" between handlers)
    url,            \* summarize_recipe's local url
    scraper,        \* summarize_recipe's local scraper
    fallback_used,  \* summarize_recipe's local fallback_used
    calls,          \* history: the collaborator calls of the current run
    inserted,       \* history: the tagged segments inserted by the current run
    outcome,        \* history: how the last run of summarize_recipe returned
    run,            \* history: number of runs that passed the empty-URL guard
    files,          \* the file system: file name -> content
    clock,          \* the wall clock, in seconds of the day
    saves,          \* number of save_and_open calls so far
    save_locals     \* save_and_open's locals title, clean_title, file_path

vars == <<url_entry, output_text, messagebox, pc, url, scraper, fallback_used,
          calls, inserted, outcome, run, files, clock, saves, save_locals>>

summarize_vars == <<pc, url, scraper, fallback_used, calls, inserted, outcome, run>>
save_vars == <<files, clock, saves, save_locals>>

(***************************************************************************)
(* Bounds of the model.                                                    *)
(***************************************************************************)
MaxRuns == 2
MaxSaves == 3
MaxTicks == 2
MaxTitleLen == 3

(***************************************************************************)
(* Characters and strings (Python str methods).                            *)
(***************************************************************************)
Bullet == "*"
EnDash == "~"
EAcute == "^"

Char(s, i) == SubSeq(s, i, i)

\* str.isspace for one character
IsSpace(c) == c \in {" ", "\t", "\n", "\r", "\f"}

Min(S) == CHOOSE x \in S : \A y \in S : x <= y

\* str.lstrip(), str.rstrip() and str.strip()
RECURSIVE LStrip(_)
LStrip(s) == IF s # "" /\ IsSpace(Head(s)) THEN LStrip(Tail(s)) ELSE s

RECURSIVE RStrip(_)
RStrip(s) ==
    IF s # "" /\ IsSpace(Char(s, Len(s))) THEN RStrip(SubSeq(s, 1, Len(s) - 1)) ELSE s

Strip(s) == RStrip(LStrip(s))

\* str.strip(chars) for a single character
RECURSIVE LStripChar(_, _)
LStripChar(s, c) == IF s # "" /\ Head(s) = c THEN LStripChar(Tail(s), c) ELSE s

RECURSIVE RStripChar(_, _)
RStripChar(s, c) ==
    IF s # "" /\ Char(s, Len(s)) = c THEN RStripChar(SubSeq(s, 1, Len(s) - 1), c) ELSE s

StripChar(s, c) == RStripChar(LStripChar(s, c), c)

\* str.startswith(prefix)
StartsWith(s, p) == Len(s) >= Len(p) /\ SubSeq(s, 1, Len(p)) = p

\* str.startswith(tuple of prefixes)
StartsWithAny(s, ps) == \E p \in ps : StartsWith(s, p)

\* the "in" operator on strings
Contains(s, p) == \E i \in 1..(Len(s) - Len(p) + 1) : SubSeq(s, i, i + Len(p) - 1) = p

IsLineBreak(c) == c \in {"\n", "\r", "\f"}

\* str.splitlines(): line breaks are \n, \r, \r\n and \f; no empty last line
\* the index of the first line break of s, 0 when it has none
FirstBreak(s) ==
    LET brk == {i \in 1..Len(s) : IsLineBreak(Char(s, i))}
    IN  IF brk = {} THEN 0 ELSE Min(brk)

RECURSIVE SplitLines(_)
SplitLines(s) ==
    IF s = "" THEN <<>>
    ELSE LET i == FirstBreak(s)
             j == IF Char(s, i) = "\r" /\ i < Len(s) /\ Char(s, i + 1) = "\n"
                  THEN i + 1 ELSE i
         IN  IF i = 0 THEN <<s>>
             ELSE <<SubSeq(s, 1, i - 1)>> \o SplitLines(SubSeq(s, j + 1, Len(s)))

\* sep.join(parts)
RECURSIVE Join(_, _)
Join(parts, sep) ==
    IF parts = <<>> THEN ""
    ELSE IF Len(parts) = 1 THEN parts[1]
    ELSE parts[1] \o sep \o Join(Tail(parts), sep)

\* s * n
RECURSIVE Repeat(_, _)
Repeat(s, n) == IF n <= 0 THEN "" ELSE s \o Repeat(s, n - 1)

\* [f(x) for x in xs if keep(x)] for f = strip and keep = non-empty
RECURSIVE StrippedNonEmpty(_)
StrippedNonEmpty(xs) ==
    IF xs = <<>> THEN <<>>
    ELSE LET h == Strip(Head(xs))
         IN  (IF h = "" THEN <<>> ELSE <<h>>) \o StrippedNonEmpty(Tail(xs))

(***************************************************************************)
(* Python values and exceptions.                                           *)
(***************************************************************************)
\* a number n is kept in tenths, so that int() has something to truncate
PyNone == [t |-> "None", s |-> "", n |-> 0, items |-> <<>>]
PyStr(x) == [t |-> "str", s |-> x, n |-> 0, items |-> <<>>]
PyNum(tenths) == [t |-> "num", s |-> "", n |-> tenths, items |-> <<>>]
PyList(xs) == [t |-> "list", s |-> "", n |-> 0, items |-> xs]

\* bool(v), as "x or default" and "if x" use it
Truthy(v) ==
    CASE v.t = "None" -> FALSE
      [] v.t = "str" -> v.s # ""
      [] v.t = "num" -> v.n # 0
      [] v.t = "list" -> v.items # <<>>

\* int(value): truncation toward zero
IntTrunc(tenths) == IF tenths >= 0 THEN tenths \div 10 ELSE -((-tenths) \div 10)

NoExc == [cls |-> "", msg |-> ""]
Exc(c, m) == [cls |-> c, msg |-> m]

\* the classes an exception class inherits from, itself included
Mro(c) ==
    CASE c = "WebsiteNotImplementedError" -> {c, "Exception"}
      [] c \in {"Timeout", "ConnectionError", "HTTPError"} ->
            {c, "RequestException", "OSError", "Exception"}
      [] c = "RequestException" -> {c, "OSError", "Exception"}
      [] c = "" -> {}
      [] OTHER -> {c, "Exception"}

IsInstance(e, c) == c \in Mro(e.cls)

(***************************************************************************)
(* The extraction result: what scrape_me / scrape_html return.  An adapter *)
(* is a recipe_scrapers object; each attribute the program may look up is  *)
(* either missing, or a method that returns a value or raises.             *)
(***************************************************************************)
Returns(v) == [kind |-> "returns", val |-> v, exc |-> NoExc]
Raises(e) == [kind |-> "raises", val |-> PyNone, exc |-> e]
Missing == [kind |-> "missing", val |-> PyNone, exc |-> NoExc]

\* the field accessors the handler calls, and the time accessors of the
\* recipe_scrapers API (total_time, prep_time, cook_time) and of the probe list
FieldNames == {"title", "yields", "description", "ingredients", "instructions"}
ApiTimeNames == {"total_time", "prep_time", "cook_time"}
ProbedTimeNames == {"total_time", "preptime", "cooktime"}
AttrNames == FieldNames \cup ApiTimeNames \cup ProbedTimeNames

\* hasattr(scraper, name)
HasAttr(sc, name) == sc[name].kind # "missing"

\* scraper.<name>(): the value returned, or the exception raised
Call(sc, name) ==
    IF sc[name].kind = "missing"
    THEN [exc |-> Exc("AttributeError", "object has no attribute '" \o name \o "'"),
          val |-> PyNone]
    ELSE [exc |-> sc[name].exc, val |-> sc[name].val]

NoScraper == [a \in AttrNames |-> Missing]

(***************************************************************************)
(* Constants of the handlers.                                              *)
(***************************************************************************)
MaxDescription == 600
KeptDescription == 597
MinSaveLen == 100
MinLoadingLines == 5
RuleWidth == 50

LoadingText == "Fetching and summarizing recipe...\n\n"
NoteText == "Note: Using fallback schema.org parsing (may miss some details).\n\n"
loading_marker == "Fetching and summarizing recipe..."

\* the ordered list the time loop walks
time_methods ==
    << [name |-> "total_time", label |-> "Total"],
       [name |-> "preptime", label |-> "Prep"],
       [name |-> "cooktime", label |-> "Cook"] >>

(***************************************************************************)
(* The output widget.                                                      *)
(***************************************************************************)
Seg(text, tag) == [text |-> text, tag |-> tag]

\* output_text.insert(tk.END, text, tag) by run r
Stamp(segs, r) == [i \in 1..Len(segs) |-> [text |-> segs[i].text, tag |-> segs[i].tag, run |-> r]]

\* the segments that carry a style tag
Tagged(segs) == SelectSeq(segs, LAMBDA g : g.tag # "")

\* output_text.get("1.0", tk.END)
RECURSIVE GetText(_)
GetText(ot) == IF ot = <<>> THEN "" ELSE Head(ot).text \o GetText(Tail(ot))

\* the widget as the module's last lines fill it
InitialOutput ==
    Stamp(<< Seg("Paste a cooking recipe URL above and click the button.\n\n", ""),
             Seg("Compatible with many recipe blogs such as, but not limited to:\n"
                 \o Bullet \o " allrecipes.com\n" \o Bullet \o " loveandlemons.com\n"
                 \o Bullet \o " bbcgoodfood.com\n" \o Bullet \o " foodnetwork.com\n\n", "note"),
             Seg("Recipes provided without the extra unneeded details!\n\n", "") >>, 0)

(***************************************************************************)
(* summarize_recipe, step 2: building the output from the scraper.         *)
(***************************************************************************)
\* the time loop: the entries collected, and the exception that left the loop
RECURSIVE TimeLoop(_, _, _)
TimeLoop(sc, i, times) ==
    IF i > Len(time_methods) THEN [times |-> times, exc |-> NoExc]
    ELSE LET m == time_methods[i]
             r == Call(sc, m.name)
         IN  IF ~HasAttr(sc, m.name) THEN TimeLoop(sc, i + 1, times)
             ELSE IF r.exc # NoExc
             THEN IF IsInstance(r.exc, "TypeError") \/ IsInstance(r.exc, "ValueError")
                  THEN TimeLoop(sc, i + 1, times)
                  ELSE [times |-> times, exc |-> r.exc]
             ELSE IF r.val.t = "None" THEN TimeLoop(sc, i + 1, times)
             ELSE IF r.val.t = "num"
             THEN TimeLoop(sc, i + 1,
                      Append(times, m.label \o ": " \o ToString(IntTrunc(r.val.n)) \o " min"))
             ELSE TimeLoop(sc, i + 1, Append(times, m.label \o ": " \o r.val.s))

\* time_str
TimeStr(times, fb) ==
    LET base == IF times # <<>> THEN Join(times, " | ") ELSE "Times not available"
    IN  IF fb /\ times = <<>> THEN base \o " (check original page)" ELSE base

\* the description, cut to 600 characters
Truncate(d) ==
    IF Len(d) > MaxDescription THEN SubSeq(d, 1, KeptDescription) \o "..." ELSE d

IngredientSegs(items) ==
    [i \in 1..Len(items) |-> Seg(Bullet \o " " \o Strip(items[i]) \o "\n", "body")]

StepSegs(steps) ==
    [i \in 1..Len(steps) |-> Seg(ToString(i) \o ". " \o steps[i] \o "\n", "body")]

\* the trailing segment of the except clause
ParseErrSeg(e) ==
    Seg("\nUnexpected parsing issue: " \o e.msg \o "\nPartial data shown above.", "error")

\* the try block of step 2 after the delete: the segments inserted, the handler's
\* segment last when an exception left the block
BuildOutput(sc, fb) ==
    LET t == Call(sc, "title")
        y == Call(sc, "yields")
        d == Call(sc, "description")
        tl == TimeLoop(sc, 1, <<>>)
        g == Call(sc, "ingredients")
        n == Call(sc, "instructions")
        title == IF Truthy(t.val) THEN t.val.s ELSE "Recipe (title not found)"
        servings == IF Truthy(y.val) THEN y.val.s ELSE "N/A"
        description == Truncate(IF Truthy(d.val) THEN d.val.s ELSE "No description available.")
        overview == << Seg(title \o "\n\n", "title"),
                       Seg("Servings: " \o servings \o "\n", "heading"),
                       Seg(TimeStr(tl.times, fb) \o "\n", "heading"),
                       Seg("Notes: " \o description \o "\n\n", "heading") >>
        ingredients ==
            IF Truthy(g.val)
            THEN <<Seg("Ingredients:\n", "heading")>> \o IngredientSegs(g.val.items)
                 \o <<Seg("\n", "")>>
            ELSE <<Seg("Ingredients: (not found)\n\n", "heading")>>
        instructions ==
            IF Truthy(n.val)
            THEN <<Seg("Instructions:\n", "heading")>>
                 \o StepSegs(StrippedNonEmpty(SplitLines(n.val.s)))
                 \o <<Seg("\n", "")>>
            ELSE <<Seg("Instructions: (not extracted " \o EnDash \o " see original site)\n",
                       "heading")>>
    IN  IF t.exc # NoExc THEN <<ParseErrSeg(t.exc)>>
        ELSE IF y.exc # NoExc THEN <<ParseErrSeg(y.exc)>>
        ELSE IF d.exc # NoExc THEN <<ParseErrSeg(d.exc)>>
        ELSE IF tl.exc # NoExc THEN <<ParseErrSeg(tl.exc)>>
        ELSE IF g.exc # NoExc THEN Append(overview, ParseErrSeg(g.exc))
        ELSE IF n.exc # NoExc THEN Append(overview \o ingredients, ParseErrSeg(n.exc))
        ELSE overview \o ingredients \o instructions

(***************************************************************************)
(* Inputs: what the user types and what the collaborators answer.          *)
(***************************************************************************)
UrlInputs ==
    {"", "  ", "a.com/pie", " a.com/pie ", "http://a.com", "https://a.com",
     "HTTP://a.com", "ftp://a.com"}

SchemaErr == Exc("SchemaOrgException", "no schema.org data")
LongDescription == Repeat("0123456789", 65)

TitleBehaviours == {Returns(PyStr("Test Pie")), Returns(PyNone), Raises(SchemaErr), Missing}
YieldsBehaviours == {Returns(PyStr("4 servings")), Returns(PyNone), Raises(SchemaErr)}
DescriptionBehaviours ==
    {Returns(PyStr("A pie.")), Returns(PyStr(LongDescription)), Returns(PyNone), Missing}
IngredientsBehaviours ==
    {Returns(PyList(<<" 2 apples ", "1 cup flour">>)), Returns(PyList(<<>>)), Raises(SchemaErr)}
InstructionsBehaviours ==
    {Returns(PyStr("Mix.\n\n  Bake. \n")), Returns(PyNone), Raises(SchemaErr)}

TotalTimeBehaviours ==
    {Missing, Returns(PyNone), Returns(PyNum(450)), Returns(PyNum(-15)),
     Returns(PyStr("varies")), Raises(Exc("TypeError", "bad duration")), Raises(SchemaErr)}
PrepTimeBehaviours == {Missing, Returns(PyNone), Returns(PyNum(150))}
CookTimeBehaviours ==
    {Missing, Returns(PyStr("varies")), Raises(Exc("ValueError", "bad duration"))}

MkScraper(t, y, d, g, n, tt, pt, ct, ppt, cct) ==
    [a \in AttrNames |->
        CASE a = "title" -> t
          [] a = "yields" -> y
          [] a = "description" -> d
          [] a = "ingredients" -> g
          [] a = "instructions" -> n
          [] a = "total_time" -> tt
          [] a = "prep_time" -> pt
          [] a = "cook_time" -> ct
          [] a = "preptime" -> ppt
          [] a = "cooktime" -> cct]

\* adapters whose fields vary, with the time accessors of a plain adapter
FieldScrapers ==
    {MkScraper(t, y, d, g, n, tt, Missing, Missing, Missing, Missing) :
        t \in TitleBehaviours, y \in YieldsBehaviours, d \in DescriptionBehaviours,
        g \in IngredientsBehaviours, n \in InstructionsBehaviours, tt \in {Missing}}

\* adapters whose time accessors vary, with every field present
TimeScrapers ==
    {MkScraper(Returns(PyStr("Test Pie")), Returns(PyStr("4 servings")),
               Returns(PyStr("A pie.")), Returns(PyList(<<" 2 apples ", "1 cup flour">>)),
               Returns(PyStr("Mix.\n\n  Bake. \n")), tt, pt, ct, ppt, cct) :
        tt \in TotalTimeBehaviours,
        pt \in {Missing, Returns(PyNum(150))}, ct \in {Missing, Returns(PyStr("varies"))},
        ppt \in PrepTimeBehaviours, cct \in CookTimeBehaviours}

Scrapers == FieldScrapers \cup TimeScrapers

\* scrape_me(url): an adapter, or an exception
NativeErrors ==
    {Exc("WebsiteNotImplementedError", "Website is not supported"),
     Exc("ConnectionError", "connection refused"),
     Exc("ValueError", "bad page")}

\* requests.get(url, headers, timeout): a response status, or an exception
FetchErrors == {Exc("Timeout", "read timed out"), Exc("ConnectionError", "name not resolved")}
FetchStatuses == {200, 304, 404, 503}

\* scrape_html(html, org_url): an adapter, or an exception
GenericErrors ==
    {Exc("WebsiteNotImplementedError", "Website is not supported"), SchemaErr}

(***************************************************************************)
(* summarize_recipe.                                                       *)
(***************************************************************************)
\* the scheme prefix: url unless it starts with http:// or https://
NormalizeUrl(u) ==
    IF ~StartsWithAny(u, {"http://", "https://"}) THEN "https://" \o u ELSE u

\* response.raise_for_status()
RaiseForStatus(status) ==
    IF 400 <= status /\ status < 600
    THEN Exc("HTTPError", ToString(status) \o " Error")
    ELSE NoExc

\* mutant: every failure of the native adapter starts the fallback
NativeHandler_AnyFailureFallsBack(e) == "fallback"

\* the except clauses of the outer try around scrape_me
NativeHandler(e) ==
    IF IsInstance(e, "WebsiteNotImplementedError") THEN "fallback"
    ELSE IF IsInstance(e, "Exception") THEN "parsing_error"
    ELSE "propagate"

\* mutant: the two inner except clauses in the other order
FallbackHandler_GeneralClauseFirst(e) ==
    IF IsInstance(e, "Exception") THEN "fallback_failed"
    ELSE IF IsInstance(e, "RequestException") THEN "could_not_load"
    ELSE "propagate"

\* the except clauses of the inner try around requests.get and scrape_html
FallbackHandler(e) ==
    IF IsInstance(e, "RequestException") THEN "could_not_load"
    ELSE IF IsInstance(e, "Exception") THEN "fallback_failed"
    ELSE "propagate"

\* the error segment each handler inserts
ErrorSeg(kind, e) ==
    CASE kind = "could_not_load" ->
            Seg("Could not load page: " \o e.msg \o "\nTry another URL.\n", "error")
      [] kind = "fallback_failed" ->
            Seg("Fallback failed: " \o e.msg \o "\n", "error")
      [] kind = "parsing_error" ->
            Seg("Parsing error: " \o e.msg \o "\nTry a different recipe site.\n", "error")

CallRec(fn, u, e, status) == [fn |-> fn, url |-> u, exc |-> e.cls, status |-> status]

\* mutant: the delete is lost, the widget keeps what it held
ClearOutput_KeepsText(ot) == ot

\* output_text.delete(1.0, tk.END), lines 71 and 104: what is left of the widget
ClearOutput(ot) == <<>>

\* the user types into the entry
TypeUrl ==
    /\ pc = "idle"
    /\ \E u \in UrlInputs : url_entry' = u
    /\ UNCHANGED <<output_text, messagebox, summarize_vars, save_vars>>

\* lines 61-76: the guard, the prefix, the clear and the loading message
summarize_recipe ==
    /\ pc = "idle"
    /\ run < MaxRuns
    /\ LET u == Strip(url_entry)
       IN  IF u = ""
           THEN /\ messagebox' = "showwarning: Please enter a recipe URL."
                /\ UNCHANGED <<output_text, summarize_vars>>
           ELSE /\ url' = NormalizeUrl(u)
                /\ output_text' =
                      ClearOutput(output_text) \o Stamp(<<Seg(LoadingText, "")>>, run + 1)
                /\ scraper' = NoScraper
                /\ fallback_used' = FALSE
                /\ calls' = <<>>
                /\ inserted' = <<>>
                /\ outcome' = "running"
                /\ run' = run + 1
                /\ pc' = "scrape_me"
                /\ messagebox' = ""
    /\ UNCHANGED <<url_entry, save_vars>>

\* lines 79-83 and 96-98: the native adapter and the outer except clauses
Step1_scrape_me ==
    /\ pc = "scrape_me"
    /\ \/ \E sc \in Scrapers :
            /\ calls' = Append(calls, CallRec("scrape_me", url, NoExc, 0))
            /\ scraper' = sc
            /\ pc' = "build"
            /\ UNCHANGED <<output_text, fallback_used, inserted, outcome>>
       \/ \E e \in NativeErrors :
            /\ calls' = Append(calls, CallRec("scrape_me", url, e, 0))
            /\ IF NativeHandler(e) = "fallback"
               THEN /\ fallback_used' = TRUE
                    /\ pc' = "requests_get"
                    /\ UNCHANGED <<output_text, inserted, outcome>>
               ELSE /\ output_text' =
                        output_text \o Stamp(<<ErrorSeg(NativeHandler(e), e)>>, run)
                    /\ inserted' = Append(inserted, ErrorSeg(NativeHandler(e), e))
                    /\ outcome' = NativeHandler(e)
                    /\ pc' = "idle"
                    /\ UNCHANGED fallback_used
            /\ UNCHANGED scraper
    /\ UNCHANGED <<url_entry, messagebox, url, run, save_vars>>

\* lines 85-87 and 90-95: the fetch, raise_for_status and the inner except clauses
Fallback_requests_get ==
    /\ pc = "requests_get"
    /\ \E r \in [exc : FetchErrors, status : {0}] \cup [exc : {NoExc}, status : FetchStatuses] :
        LET e == IF r.exc # NoExc THEN r.exc ELSE RaiseForStatus(r.status)
        IN  /\ calls' = Append(calls, CallRec("requests.get", url, e, r.status))
            /\ IF e = NoExc
               THEN /\ pc' = "scrape_html"
                    /\ UNCHANGED <<output_text, inserted, outcome>>
               ELSE /\ output_text' =
                        output_text \o Stamp(<<ErrorSeg(FallbackHandler(e), e)>>, run)
                    /\ inserted' = Append(inserted, ErrorSeg(FallbackHandler(e), e))
                    /\ outcome' = FallbackHandler(e)
                    /\ pc' = "idle"
    /\ UNCHANGED <<url_entry, messagebox, url, scraper, fallback_used, run, save_vars>>

\* lines 88-89 and 93-95: the generic adapter, the note and the inner except clauses
Fallback_scrape_html ==
    /\ pc = "scrape_html"
    /\ \/ \E sc \in Scrapers :
            /\ calls' = Append(calls, CallRec("scrape_html", url, NoExc, 0))
            /\ scraper' = sc
            /\ output_text' = output_text \o Stamp(<<Seg(NoteText, "note")>>, run)
            /\ inserted' = Append(inserted, Seg(NoteText, "note"))
            /\ pc' = "build"
            /\ UNCHANGED outcome
       \/ \E e \in GenericErrors :
            /\ calls' = Append(calls, CallRec("scrape_html", url, e, 0))
            /\ output_text' =
                  output_text \o Stamp(<<ErrorSeg(FallbackHandler(e), e)>>, run)
            /\ inserted' = Append(inserted, ErrorSeg(FallbackHandler(e), e))
            /\ outcome' = FallbackHandler(e)
            /\ pc' = "idle"
            /\ UNCHANGED scraper
    /\ UNCHANGED <<url_entry, messagebox, url, fallback_used, run, save_vars>>


\* lines 101-169: the delete, then the inserts up to the end or the exception
Step2_build_output ==
    /\ pc = "build"
    /\ LET segs == BuildOutput(scraper, fallback_used)
       IN  /\ output_text' = ClearOutput(output_text) \o Stamp(segs, run)
           /\ inserted' = inserted \o Tagged(segs)
           /\ outcome' = IF segs[Len(segs)].tag = "error" THEN "compose_error" ELSE "composed"
    /\ pc' = "idle"
    /\ UNCHANGED <<url_entry, messagebox, url, scraper, fallback_used, calls, run, save_vars>>

(***************************************************************************)
(* save_and_open.                                                          *)
(***************************************************************************)
AsciiWordChars == "abcdefghijklmnopqrstuvwxyzABCDEFGHIJKLMNOPQRSTUVWXYZ0123456789_"

\* re's \w on a str pattern: Unicode letters, digits and the underscore
IsWordChar(c) == Contains(AsciiWordChars, c) \/ c = EAcute

\* re.sub(r'[^\w\s-]', '', title)
RECURSIVE RemoveSpecial(_)
RemoveSpecial(s) ==
    IF s = "" THEN ""
    ELSE LET c == Head(s)
         IN  (IF IsWordChar(c) \/ IsSpace(c) \/ c = "-" THEN c ELSE "")
             \o RemoveSpecial(Tail(s))

\* re.sub(r'\s+', '_', s)
RECURSIVE CollapseSpaces(_)
CollapseSpaces(s) ==
    IF s = "" THEN ""
    ELSE IF IsSpace(Head(s))
    THEN LET rest == Tail(s)
             nxt == {i \in 1..Len(rest) : ~IsSpace(Char(rest, i))}
         IN  "_" \o (IF nxt = {} THEN "" ELSE CollapseSpaces(SubSeq(rest, Min(nxt), Len(rest))))
    ELSE Head(s) \o CollapseSpaces(Tail(s))

\* mutant: the underscores at the ends are kept
StripUnderscores_Skipped(s) == s

\* clean_title.strip('_')
StripUnderscores(s) == StripChar(s, "_")

\* lines 191-196
CleanTitle(title) ==
    LET c == StripUnderscores(CollapseSpaces(RemoveSpecial(title)))
    IN  IF c = "" THEN "edited_recipe" ELSE c

Pad2(n) == IF n < 10 THEN "0" \o ToString(n) ELSE ToString(n)

\* datetime.now().strftime("%Y-%m-%d_%H%M") on the model's day
Timestamp(seconds) ==
    "2026-01-15_" \o Pad2((seconds \div 3600) % 24) \o Pad2((seconds \div 60) % 60)

\* lines 198-204: the base name, or the timestamped name when the base name exists
FilePath(clean_title, fs, seconds) ==
    IF (clean_title \o ".txt") \in DOMAIN fs
    THEN clean_title \o "_" \o Timestamp(seconds) \o ".txt"
    ELSE clean_title \o ".txt"

\* what lines 208-210 write
FileContent(title, entry, text) ==
    "RecipeCore Summary " \o EnDash \o " " \o title \o "\n" \o Repeat("=", RuleWidth) \o "\n\n"
    \o "Source URL: " \o Strip(entry) \o "\n\n" \o text

\* open(file_path, "w") and the writes
WriteFile(fs, path, content) == (path :> content) @@ fs

\* the whole handler; open() or the launcher may raise
save_and_open ==
    /\ pc = "idle"
    /\ saves < MaxSaves
    /\ saves' = saves + 1
    /\ LET text == Strip(GetText(output_text))
       IN  IF Len(text) < MinSaveLen
              \/ (Contains(text, loading_marker) /\ Len(SplitLines(text)) < MinLoadingLines)
           THEN /\ messagebox' = "showwarning: Run a summary first."
                /\ UNCHANGED <<files, save_locals>>
           ELSE LET lines == StrippedNonEmpty(SplitLines(text))
                    title == IF lines # <<>> THEN lines[1] ELSE "Recipe"
                    clean_title == CleanTitle(title)
                    file_path == FilePath(clean_title, files, clock)
                IN  \E io \in {"ok", "open raises", "launcher raises"} :
                      /\ save_locals' = [title |-> title, clean_title |-> clean_title,
                                         file_path |-> file_path]
                      /\ files' = IF io = "open raises" THEN files
                                  ELSE WriteFile(files, file_path,
                                                 FileContent(title, url_entry, text))
                      /\ messagebox' = IF io = "ok"
                                       THEN "showinfo: Saved as:\n" \o file_path
                                       ELSE "showerror: Could not save/open file"
    /\ UNCHANGED <<url_entry, output_text, clock, summarize_vars>>

\* time passes
Tick ==
    /\ clock < 30 * MaxTicks
    /\ clock' = clock + 30
    /\ UNCHANGED <<url_entry, output_text, messagebox, summarize_vars, files, saves, save_locals>>

(***************************************************************************)
(* Inputs of save_and_open: what the output widget may hold when the user  *)
(* saves (a summary, possibly edited).                                     *)
(***************************************************************************)
TitleAlphabet == {"a", "_", " ", "-", "!", EAcute}

RECURSIVE StringsUpTo(_)
StringsUpTo(n) ==
    IF n = 0 THEN {""}
    ELSE StringsUpTo(n - 1) \cup {s \o c : s \in StringsUpTo(n - 1), c \in TitleAlphabet}

ExampleTitles == {"Mom's Apple Pie!", "Test Pie", "a  ! b", "Cr" \o EAcute \o "me (2)"}

BodyLong ==
    "Servings: 4\nTotal: 45 min\nNotes: A pie.\n\nIngredients:\n" \o Bullet \o " 2 apples\n"
    \o Bullet \o " 1 cup flour\n\nInstructions:\n1. Mix.\n2. Bake.\n\n"
BodyEdited == BodyLong \o "3. Serve warm with cream.\n"
BodyShort == "Servings: 4\n"
BodyLoading ==
    "Could not load page: " \o Repeat("connection refused ", 5) \o "\nTry another URL.\n"

\* the widget after a summary (possibly edited by the user)
SummaryWidget(title, body) == Stamp(<<Seg(title \o "\n\n", "title"), Seg(body, "")>>, 0)

\* the widget after a run that ended in the fetch error
FailedWidget == Stamp(<<Seg(LoadingText, ""), Seg(BodyLoading, "error")>>, 0)

Titles == StringsUpTo(MaxTitleLen) \cup ExampleTitles
SaveTitles == {"Mom's Apple Pie!", "Moms Apple Pie"}
SaveWidgets ==
    {SummaryWidget(t, b) : t \in SaveTitles, b \in {BodyLong, BodyEdited, BodyShort}}
    \cup {FailedWidget}

\* the user edits the output widget
UserEdit ==
    /\ pc = "idle"
    /\ \E w \in SaveWidgets : output_text' = w
    /\ UNCHANGED <<url_entry, messagebox, summarize_vars, save_vars>>

InitRest ==
    /\ url_entry = ""
    /\ messagebox = ""
    /\ pc = "idle"
    /\ url = ""
    /\ scraper = NoScraper
    /\ fallback_used = FALSE
    /\ calls = <<>>
    /\ inserted = <<>>
    /\ outcome = "none"
    /\ run = 0
    /\ files = [f \in {} |-> ""]
    /\ clock = 0
    /\ saves = 0
    /\ save_locals = [title |-> "", clean_title |-> "", file_path |-> ""]

\* the state after the module's construction code
Init == output_text = InitialOutput /\ InitRest

\* a summary on display, the entry holding its URL
InitSave ==
    /\ output_text \in SaveWidgets
    /\ InitRest

\* a summary with any title on display
InitSanitize ==
    /\ output_text \in {SummaryWidget(t, BodyLong) : t \in Titles}
    /\ InitRest

Next ==
    \/ TypeUrl
    \/ summarize_recipe
    \/ Step1_scrape_me
    \/ Fallback_requests_get
    \/ Fallback_scrape_html
    \/ Step2_build_output

NextSave ==
    \/ UserEdit
    \/ Tick
    \/ save_and_open

\* one save of the summary on display
NextSanitize == saves = 0 /\ save_and_open

Spec == Init /\ [][Next]_vars
SpecSave == InitSave /\ [][NextSave]_vars
SpecSanitize == InitSanitize /\ [][NextSanitize]_vars

(***************************************************************************)
(* Properties.                                                             *)
(***************************************************************************)
Returned == pc = "idle" /\ run >= 1

TagsOf(ot) == {ot[i].tag : i \in 1..Len(ot)}
HasSeg(text, tag) == \E i \in 1..Len(output_text) :
                        output_text[i].text = text /\ output_text[i].tag = tag
Unstamped(ot) == [i \in 1..Len(ot) |-> Seg(ot[i].text, ot[i].tag)]
CalledFns == {calls[i].fn : i \in 1..Len(calls)}

\* the output of a run that ended in one error message: the loading text, then
\* one error segment that starts with the given words
OnlyError(prefix) ==
    /\ Len(output_text) = 2
    /\ output_text[1] = [text |-> LoadingText, tag |-> "", run |-> run]
    /\ output_text[2].tag = "error"
    /\ StartsWith(output_text[2].text, prefix)

\* C1: the fetch and the generic adapter are called only after scrape_me raised
\* WebsiteNotImplementedError; when scrape_me succeeds the fetch is never called
\* and fallback_used stays false; when scrape_me raises anything else the run
\* returns at once with the 'Parsing error' segment, nothing fetched, nothing
\* composed.
C1_FallbackOnlyAfterUnsupported ==
    /\ \A i \in 1..Len(calls) :
          /\ (i = 1) <=> (calls[i].fn = "scrape_me")
          /\ calls[i].fn \in {"requests.get", "scrape_html"} =>
                calls[1].exc = "WebsiteNotImplementedError"
          /\ calls[i].fn = "scrape_html" => i = 3 /\ calls[2].fn = "requests.get"
    /\ (calls # <<>> /\ calls[1].exc = "") =>
          /\ CalledFns = {"scrape_me"}
          /\ ~fallback_used
    /\ (calls # <<>> /\ calls[1].exc \notin {"", "WebsiteNotImplementedError"}) =>
          /\ pc = "idle"
          /\ CalledFns = {"scrape_me"}
          /\ ~fallback_used
          /\ OnlyError("Parsing error: ")

C1_Witness ==
    /\ pc = "build"
    /\ fallback_used
    /\ Len(calls) = 3
    /\ calls[1].exc = "WebsiteNotImplementedError"

\* C2: after a fallback run that composed its output, the output begins with the
\* note segment, the title segment follows it, and the note is in the final
\* output exactly when the fallback was used.
C2_NoteLeadsFallbackOutput ==
    (Returned /\ outcome = "composed") =>
        /\ fallback_used <=> ("note" \in TagsOf(output_text))
        /\ fallback_used =>
              /\ output_text[1].tag = "note"
              /\ output_text[2].tag = "title"

Degenerate(name) == scraper[name].kind \in {"missing", "raises"} \/ scraper[name].val.t = "None"

\* C3: whatever accessor is missing, raises or returns nothing, that field takes
\* its placeholder, the other fields are emitted and no error segment appears.
C3_FieldDefaultsNeverAbort ==
    (Returned /\ outcome \in {"composed", "compose_error"}) =>
        /\ "error" \notin TagsOf(output_text)
        /\ Degenerate("title") => HasSeg("Recipe (title not found)\n\n", "title")
        /\ ~Degenerate("title") => HasSeg(scraper["title"].val.s \o "\n\n", "title")
        /\ Degenerate("yields") => HasSeg("Servings: N/A\n", "heading")
        /\ ~Degenerate("yields") => HasSeg("Servings: " \o scraper["yields"].val.s \o "\n", "heading")
        /\ Degenerate("description") => HasSeg("Notes: No description available.\n\n", "heading")
        /\ Degenerate("ingredients") => HasSeg("Ingredients: (not found)\n\n", "heading")
        /\ Degenerate("instructions") =>
              HasSeg("Instructions: (not extracted " \o EnDash \o " see original site)\n", "heading")
        /\ (\A a \in ApiTimeNames \cup ProbedTimeNames : Degenerate(a)) =>
              \E i \in 1..Len(output_text) :
                  /\ output_text[i].tag = "heading"
                  /\ StartsWith(output_text[i].text, "Times not available")

FetchCalls == {i \in 1..Len(calls) : calls[i].fn = "requests.get"}
NoSummarySegs == TagsOf(output_text) \cap {"title", "heading", "body", "note"} = {}

C5_PartialOutputKept ==
    (Returned /\ outcome = "compose_error" /\ Len(inserted) > 1) =>
        /\ Tagged(Unstamped(output_text)) = inserted
        /\ output_text[Len(output_text)].tag = "error"
        /\ StartsWith(output_text[Len(output_text)].text, "\nUnexpected parsing issue: ")

\* the time line the claim describes, over the accessors total_time, prep_time
\* and cook_time
ClaimTimeEntry(name, label) ==
    LET a == scraper[name]
    IN  IF a.kind # "returns" \/ a.val.t = "None" THEN <<>>
        ELSE IF a.val.t = "num"
        THEN <<label \o ": " \o ToString(IntTrunc(a.val.n)) \o " min">>
        ELSE <<label \o ": " \o a.val.s>>

ClaimTimeLine ==
    LET entries == ClaimTimeEntry("total_time", "Total") \o ClaimTimeEntry("prep_time", "Prep")
                   \o ClaimTimeEntry("cook_time", "Cook")
    IN  IF entries = <<>>
        THEN "Times not available" \o (IF fallback_used THEN " (check original page)" ELSE "")
        ELSE Join(entries, " | ")

\* C6: for an adapter of the recipe_scrapers API the time heading lists, in the
\* order Total, Prep, Cook, the accessors total_time, prep_time and cook_time
\* that return a value, joined by ' | ', or 'Times not available' (with the
\* hint under fallback) when none does.
C6_TimeLineFromApiAccessors ==
    (Returned /\ outcome = "composed"
        /\ \A a \in ProbedTimeNames \ ApiTimeNames : ~HasAttr(scraper, a)) =>
        HasSeg(ClaimTimeLine \o "\n", "heading")

IsAlpha(c) == Contains("abcdefghijklmnopqrstuvwxyzABCDEFGHIJKLMNOPQRSTUVWXYZ", c)
IsSchemeChar(c) == IsAlpha(c) \/ Contains("0123456789+-.", c)

\* a URL scheme: a letter, then letters, digits, '+', '-' or '.', then "://"
HasScheme(u) ==
    \E i \in 2..(Len(u) - 2) :
        /\ SubSeq(u, i, i + 2) = "://"
        /\ IsAlpha(Char(u, 1))
        /\ \A j \in 1..(i - 1) : IsSchemeChar(Char(u, j))

\* C7: the URL handed to the extractor is the (trimmed) input when the input has
\* a scheme, in any letter case, and 'https://' + input when it has none.
C7_SchemePrefixedOnlyWhenMissing ==
    (pc # "idle" /\ calls # <<>>) =>
        LET u == Strip(url_entry)
        IN  calls[1].url = IF HasScheme(u) THEN u ELSE "https://" \o u

Saved == save_locals.file_path # ""

RECURSIVE Core(_)
\* the characters of s that are letters, digits or '-'
Core(s) ==
    IF s = "" THEN ""
    ELSE (IF (IsWordChar(Head(s)) /\ Head(s) # "_") \/ Head(s) = "-" THEN Head(s) ELSE "")
         \o Core(Tail(s))

StemShape(c) ==
    /\ c # ""
    /\ Head(c) # "_"
    /\ Char(c, Len(c)) # "_"

\* C8 as stated: the stem is never empty, never starts or ends with '_', and
\* holds only ASCII letters, digits, '_' and '-'.
C8_StemIsAsciiOnly ==
    Saved =>
        /\ StemShape(save_locals.clean_title)
        /\ \A i \in 1..Len(save_locals.clean_title) :
              LET c == Char(save_locals.clean_title, i)
              IN  Contains(AsciiWordChars, c) \/ c = "-"

\* C8 amended: the stem is never empty, never starts or ends with '_', and holds
\* only word characters (letters and digits of any script, '_') and '-'; its
\* letters, digits and '-' are the title's, in order; a title without '_' gives
\* no '__'; a title with none of them gives 'edited_recipe'; "Mom's Apple Pie!"
\* gives 'Moms_Apple_Pie'.
C8_StemIsWordCharsOnly ==
    Saved =>
        LET t == save_locals.title
            c == save_locals.clean_title
        IN  /\ StemShape(c)
            /\ \A i \in 1..Len(c) : IsWordChar(Char(c, i)) \/ Char(c, i) = "-"
            /\ Core(t) = "" => c = "edited_recipe"
            /\ Core(t) # "" => Core(c) = Core(t)
            /\ ~Contains(t, "_") => ~Contains(c, "__")
            /\ t = "Mom's Apple Pie!" => c = "Moms_Apple_Pie"
            /\ StartsWith(save_locals.file_path, c)
            /\ messagebox # "showerror: Could not save/open file" =>
                  (c \o ".txt") \in DOMAIN files

C8_Witness ==
    /\ save_locals.title = "Mom's Apple Pie!"
    /\ save_locals.clean_title = "Moms_Apple_Pie"
    /\ "Moms_Apple_Pie.txt" \in DOMAIN files

\* C9: no save changes a file that existed before it.
C9_NeverOverwrites ==
    [][\A f \in DOMAIN files : f \in DOMAIN files' /\ files'[f] = files[f]]_vars

\* C10: once a call with a URL has started, the output holds only what that
\* call inserted: nothing of an earlier call, nothing of the placeholder.
C10_OutputOnlyFromLatestCall ==
    run >= 1 =>
        /\ \A i \in 1..Len(output_text) : output_text[i].run = run
        /\ ~Contains(GetText(output_text), "Paste a cooking recipe URL")
        /\ pc = "idle" => output_text # <<>>

C10_Witness ==
    /\ Returned
    /\ run = 2
    /\ outcome = "could_not_load"

====
